---- MODULE Spec2Model ----
(***************************************************************************)
(* Model of gemini_analysis.py: the resumable batch driver that walks a    *)
(* directory tree of images, submits each image to a remote model with     *)
(* bounded retries, appends one line per answer to responses.txt and       *)
(* rebuilds its set of already written filenames from that file at start.  *)
(*                                                                         *)
(* Strings are sequences of one-character strings, so that the line        *)
(* format of the writer and the parsing of the loader are both computed.   *)
(***************************************************************************)
EXTENDS Integers, Sequences, FiniteSets, TLC

\* ------------------------------------------------------------------ bounds

\* Number of times the program is started over the same responses.txt.
MaxRuns == 3

\* ------------------------------------------------------- program constants

max_retries == 4
delay_seconds == 1

\* ----------------------------------------------------------------- strings

\* Code points of the characters used, for Python's str comparison in sorted().
Ord(c) ==
    CASE c = "\n" -> 10
      [] c = " " -> 32
      [] c = "," -> 44
      [] c = "A" -> 65
      [] c = "B" -> 66
      [] c = "a" -> 97
      [] c = "b" -> 98
      [] c = "x" -> 120
      [] OTHER -> 0

RECURSIVE StrLess(_, _)
\* s < t for Python strings (lexicographic by code point).
StrLess(s, t) ==
    IF t = <<>> THEN FALSE
    ELSE IF s = <<>> THEN TRUE
    ELSE IF Head(s) = Head(t) THEN StrLess(Tail(s), Tail(t))
    ELSE Ord(Head(s)) < Ord(Head(t))

RECURSIVE Sorted(_)
\* sorted(S) for a set S of strings: the ascending sequence of its elements.
Sorted(S) ==
    IF S = {} THEN <<>>
    ELSE LET m == CHOOSE x \in S : \A y \in S \ {x} : StrLess(x, y)
         IN <<m>> \o Sorted(S \ {m})

\* Characters str.strip() removes.
Whitespace == {" ", "\n"}

RECURSIVE LStrip(_)
LStrip(s) ==
    IF s # <<>> /\ Head(s) \in Whitespace THEN LStrip(Tail(s)) ELSE s

RECURSIVE RStrip(_)
RStrip(s) ==
    IF s # <<>> /\ s[Len(s)] \in Whitespace
    THEN RStrip(SubSeq(s, 1, Len(s) - 1))
    ELSE s

\* line.strip()
Strip(s) == RStrip(LStrip(s))

RECURSIVE FirstField(_)
\* s.split(",")[0]: the characters before the first comma (all of s if none).
FirstField(s) ==
    IF s = <<>> \/ Head(s) = "," THEN <<>>
    ELSE <<Head(s)>> \o FirstField(Tail(s))

RECURSIVE FileLines(_, _)
\* "for line in file": the lines of the content s, each ending with its "\n",
\* the last one possibly without; acc is the line being read.
FileLines(s, acc) ==
    IF s = <<>> THEN (IF acc = <<>> THEN <<>> ELSE <<acc>>)
    ELSE IF Head(s) = "\n" THEN <<acc \o <<"\n">> >> \o FileLines(Tail(s), <<>>)
    ELSE FileLines(Tail(s), acc \o <<Head(s)>>)

\* The key the loader derives from one line of responses.txt.
LineKey(line) == FirstField(Strip(line))

\* The keys of the lines of a file content, in file order.
KeySeq(content) ==
    LET ls == FileLines(content, <<>>)
    IN [i \in 1..Len(ls) |-> LineKey(ls[i])]

\* already_written_set as main() builds it from responses.txt.
LoadLedger(content) ==
    LET ks == KeySeq(content)
    IN {ks[i] : i \in 1..Len(ks)}

\* response_csv_line = img_filename + ", " + response.text + "\n"
FormatLine(img_filename, text) ==
    img_filename \o <<",", " ">> \o text \o <<"\n">>

\* -------------------------------------------------------------- file tree

\* File and directory names.
fa == <<"a">>
fb == <<"b">>
fx == <<"x">>
fab == <<"a", ",", "b">>
dA == <<"A">>
dB == <<"B">>

\* The image directory given on the command line, as a path relative to itself.
Root == <<>>

\* Response texts the remote model may return: one word, or two lines.
Texts == { <<"x">>, <<"x", "\n", "b">> }

\* The directory trees the program is run on.  dirs: the directories (paths
\* below the image directory); files: the regular files of each; filter: the
\* names --filter_re matches; corrupt: the files PIL cannot open.
FlatTree ==
    [dirs |-> {Root},
     files |-> (Root :> {fa, fb, fx}),
     filter |-> {fa, fb},
     corrupt |-> {}]

CommaTree ==
    [dirs |-> {Root},
     files |-> (Root :> {fa, fab}),
     filter |-> {fa, fab},
     corrupt |-> {}]

CorruptTree ==
    [dirs |-> {Root},
     files |-> (Root :> {fa, fb}),
     filter |-> {fa, fb},
     corrupt |-> {<<Root, fa>>}]

SubdirTree ==
    [dirs |-> {Root, <<dA>>, <<dB>>},
     files |-> (Root :> {fa}) @@ (<<dA>> :> {fb}) @@ (<<dB>> :> {fb}),
     filter |-> {fa, fb, dA},
     corrupt |-> {}]

NestedTree ==
    [dirs |-> {Root, <<dA>>, <<dA, dB>>},
     files |-> (Root :> {}) @@ (<<dA>> :> {fa}) @@ (<<dA, dB>> :> {}),
     filter |-> {fa},
     corrupt |-> {}]

TwinTree ==
    [dirs |-> {Root, <<dA>>, <<dB>>},
     files |-> (Root :> {}) @@ (<<dA>> :> {fab}) @@ (<<dB>> :> {fab}),
     filter |-> {fab},
     corrupt |-> {}]

Trees == {FlatTree, CommaTree, CorruptTree, SubdirTree, NestedTree, TwinTree}

\* The subdirectories of directory p of tree t (os.walk's dirnames), as names.
SubdirNames(t, p) ==
    { d[Len(d)] : d \in { e \in t.dirs : /\ Len(e) = Len(p) + 1
                                         /\ SubSeq(e, 1, Len(p)) = p } }

\* os.listdir(p): the names of the files and of the subdirectories of p.
ListDir(t, p) == t.files[p] \cup SubdirNames(t, p)

\* The order in which the file system lists names: ascending, or descending.
Listed(S, rev) ==
    LET asc == Sorted(S)
    IN IF rev THEN [i \in 1..Len(asc) |-> asc[Len(asc) + 1 - i]] ELSE asc

RECURSIVE WalkFrom(_, _, _, _)
\* os.walk, top down: the directory p, then the walk of each directory of
\* todo (p's subdirectories still to descend into, in listing order).
WalkFrom(t, p, todo, rev) ==
    IF todo = <<>> THEN <<p>>
    ELSE LET c == p \o <<todo[Len(todo)]>>
             before == SubSeq(todo, 1, Len(todo) - 1)
         IN WalkFrom(t, p, before, rev)
              \o WalkFrom(t, c, Listed(SubdirNames(t, c), rev), rev)

\* The directories os.walk(args.image_directory) yields, in order.
Walk(t, rev) == WalkFrom(t, Root, Listed(SubdirNames(t, Root), rev), rev)

\* ------------------------------------------------------------------ state

VARIABLES
    fs,             \* the directory tree under args.image_directory
    listRev,        \* whether the file system lists names in descending order
    store,          \* the content of responses.txt on disk
    buf,            \* written to responses_fp and not yet flushed
    ledger,         \* already_written_set
    pc,             \* where the process is; "idle" when no process runs
    walk,           \* the directories os.walk has still to yield
    queue,          \* the directories the current walk step has still to scan
    img_dir,        \* the directory being scanned
    entries,        \* the sorted names of img_dir still to be looked at
    img_filename,   \* the name being processed
    retry_count,    \* failed attempts for img_filename
    response,       \* response.text of the successful call
    run,            \* how many times the program has been started
    runBase,        \* what responses.txt held when this run started
    okCalls,        \* generate_content calls that returned in this run
    loaded,         \* already_written_set as loaded when this run started
    called,         \* <<directory, name>> of every image sent in this run
    skipped,        \* names reported "ALREADY WRITTEN SO SKIPPING" in this run
    exhausted,      \* <<directory, name>> reported "Max retries reached" in this run
    itemCalls,      \* generate_content calls made for the current image
    itemSleeps,     \* the time.sleep durations for the current image, in order
    itemBase,       \* length of the file and ledger when the current image began
    records,        \* the lines that reached the file, as [dir, name, text], in order
    prev            \* how the previous process ended

vars ==
    <<fs, listRev, store, buf, ledger, pc, walk, queue, img_dir, entries,
      img_filename, retry_count, response, run, runBase, okCalls, loaded,
      called, skipped, exhausted, itemCalls, itemSleeps, itemBase, records,
      prev>>

\* The variables of one process: lost when it ends.
procVars ==
    <<ledger, walk, queue, img_dir, entries, img_filename, retry_count, response>>

\* What is observed of one run.
runVars ==
    <<runBase, okCalls, loaded, called, skipped, exhausted, itemCalls,
      itemSleeps, itemBase>>

NoName == <<>>
NoItem == <<>>
NoBase == [len |-> 0, ledger |-> {}]

\* The image being processed.
Item == <<img_dir, img_filename>>

\* The places of the process between the start of an image and its end.
ItemPcs == {"call", "sleep", "written", "flushed"}

\* The places where a process is running.
RunningPcs == {"walk", "scan"} \cup ItemPcs

\* The places where main() has ended: it returned, or open(), os.listdir or
\* Image.open raised an exception that nothing catches.
EndedPcs == {"done", "config_raised", "listdir_raised", "open_raised"}

Init ==
    /\ fs \in Trees
    /\ listRev \in BOOLEAN
    /\ store = <<>>
    /\ buf = <<>>
    /\ ledger = {}
    /\ pc = "idle"
    /\ walk = <<>>
    /\ queue = <<>>
    /\ img_dir = Root
    /\ entries = <<>>
    /\ img_filename = NoName
    /\ retry_count = 0
    /\ response = <<>>
    /\ run = 0
    /\ runBase = [len |-> 0, recs |-> 0]
    /\ okCalls = 0
    /\ loaded = {}
    /\ called = {}
    /\ skipped = {}
    /\ exhausted = {}
    /\ itemCalls = 0
    /\ itemSleeps = <<>>
    /\ itemBase = NoBase
    /\ records = <<>>
    /\ prev = [how |-> "none", at |-> "idle", item |-> NoItem, kept |-> FALSE]

\* ------------------------------------------------------------------- main

\* Mutant of StartRun: responses.txt is opened with mode "w", which empties
\* it after the ledger has been loaded.
StartRunTruncates ==
    /\ pc = "idle"
    /\ run < MaxRuns
    /\ run' = run + 1
    /\ runBase' = [len |-> Len(store), recs |-> Len(records)]
    /\ okCalls' = 0
    /\ ledger' = LoadLedger(store)
    /\ loaded' = LoadLedger(store)
    /\ store' = <<>>
    /\ records' = <<>>
    /\ walk' = Walk(fs, listRev)
    /\ queue' = <<>>
    /\ pc' = "walk"
    /\ called' = {}
    /\ skipped' = {}
    /\ exhausted' = {}
    /\ itemCalls' = 0
    /\ itemSleeps' = <<>>
    /\ itemBase' = NoBase
    /\ UNCHANGED <<fs, listRev, buf, img_dir, entries, img_filename,
                   retry_count, response, prev>>

\* main() up to the os.walk loop: the ledger is read from responses.txt (empty
\* when the file does not exist) and the file is opened for appending.
StartRun ==
    /\ pc = "idle"
    /\ run < MaxRuns
    /\ run' = run + 1
    /\ runBase' = [len |-> Len(store), recs |-> Len(records)]
    /\ okCalls' = 0
    /\ ledger' = LoadLedger(store)
    /\ loaded' = LoadLedger(store)
    /\ walk' = Walk(fs, listRev)
    /\ queue' = <<>>
    /\ pc' = "walk"
    /\ called' = {}
    /\ skipped' = {}
    /\ exhausted' = {}
    /\ itemCalls' = 0
    /\ itemSleeps' = <<>>
    /\ itemBase' = NoBase
    /\ UNCHANGED <<fs, listRev, store, buf, img_dir, entries, img_filename,
                   retry_count, response, records, prev>>

\* Mutant of ConfigFails: the file is opened inside the loop over the images,
\* so that its failure shows after an image has been sent.
ConfigFailsLate ==
    /\ pc = "call"
    /\ called # {}
    /\ pc' = "config_raised"
    /\ UNCHANGED <<fs, listRev, store, buf, run, records, prev>>
    /\ UNCHANGED procVars
    /\ UNCHANGED runVars

\* main() up to the os.walk loop when prompt_text.txt or responses.txt cannot
\* be opened: open() raises (line 156 or 164 before the set is filled, line
\* 174 after) and nothing catches it.
ConfigFails ==
    /\ pc = "idle"
    /\ run < MaxRuns
    /\ run' = run + 1
    /\ runBase' = [len |-> Len(store), recs |-> Len(records)]
    /\ okCalls' = 0
    /\ \E filled \in BOOLEAN :
          /\ ledger' = IF filled THEN LoadLedger(store) ELSE {}
          /\ loaded' = IF filled THEN LoadLedger(store) ELSE {}
    /\ pc' = "config_raised"
    /\ called' = {}
    /\ skipped' = {}
    /\ exhausted' = {}
    /\ itemCalls' = 0
    /\ itemSleeps' = <<>>
    /\ itemBase' = NoBase
    /\ UNCHANGED <<fs, listRev, store, buf, walk, queue, img_dir, entries,
                   img_filename, retry_count, response, records, prev>>

\* One iteration of "for dirpath, dirnames, filenames in os.walk(...)": the
\* directories it passes to send_filtered_image_prompts_for_directory.  With
\* no dirnames it is args.image_directory; otherwise each name of
\* sorted(dirnames) joined to args.image_directory.
ScanPlan(t, dirpath) ==
    LET dirnames == Sorted(SubdirNames(t, dirpath))
    IN IF dirnames = <<>> THEN <<Root>>
       ELSE [i \in 1..Len(dirnames) |-> Root \o <<dirnames[i]>>]

\* os.walk yields its next directory.
WalkNext ==
    /\ pc = "walk"
    /\ queue = <<>>
    /\ walk # <<>>
    /\ queue' = ScanPlan(fs, Head(walk))
    /\ walk' = Tail(walk)
    /\ UNCHANGED <<fs, listRev, store, buf, ledger, pc, img_dir, entries,
                   img_filename, retry_count, response, run, records, prev>>
    /\ UNCHANGED runVars

\* os.walk is exhausted: main() returns.
WalkEnd ==
    /\ pc = "walk"
    /\ queue = <<>>
    /\ walk = <<>>
    /\ pc' = "done"
    /\ UNCHANGED <<fs, listRev, store, buf, run, records, prev>>
    /\ UNCHANGED procVars
    /\ UNCHANGED runVars

\* send_filtered_image_prompts_for_directory is entered: sorted(os.listdir(img_dir)).
EnterDir ==
    /\ pc = "walk"
    /\ queue # <<>>
    /\ Head(queue) \in fs.dirs
    /\ img_dir' = Head(queue)
    /\ entries' = Sorted(ListDir(fs, Head(queue)))
    /\ queue' = Tail(queue)
    /\ pc' = "scan"
    /\ UNCHANGED <<fs, listRev, store, buf, ledger, walk, img_filename,
                   retry_count, response, run, records, prev>>
    /\ UNCHANGED runVars

\* os.listdir raises for a path that is no directory: nothing catches it.
ListDirFails ==
    /\ pc = "walk"
    /\ queue # <<>>
    /\ Head(queue) \notin fs.dirs
    /\ pc' = "listdir_raised"
    /\ UNCHANGED <<fs, listRev, store, buf, run, records, prev>>
    /\ UNCHANGED procVars
    /\ UNCHANGED runVars

\* ------------------------------- send_filtered_image_prompts_for_directory

\* re.search(filter_re, img_filename) != None
Matches(name) == name \in fs.filter

\* Mutant of AlreadyWritten: nothing is taken as already written.
AlreadyWrittenNever(name, set) == FALSE

\* img_filename in already_written_set
AlreadyWritten(name, set) == name \in set

\* os.path.isfile(os.path.join(img_dir, img_filename))
IsFile(dir, name) == name \in fs.files[dir]

\* "continue": the loop goes to the next name of the directory.
Continue ==
    /\ entries' = Tail(entries)
    /\ UNCHANGED <<fs, listRev, store, buf, ledger, pc, walk, queue, img_dir,
                   img_filename, retry_count, response, run, runBase, okCalls, loaded, called,
                   exhausted, itemCalls, itemSleeps, itemBase, records, prev>>

\* A name the filter does not match is passed over.
SkipUnmatched ==
    /\ pc = "scan"
    /\ entries # <<>>
    /\ ~Matches(Head(entries))
    /\ skipped' = skipped
    /\ Continue

\* A name of the ledger is reported and passed over.
SkipWritten ==
    /\ pc = "scan"
    /\ entries # <<>>
    /\ Matches(Head(entries))
    /\ AlreadyWritten(Head(entries), ledger)
    /\ skipped' = skipped \cup {Head(entries)}
    /\ Continue

\* A name that is no regular file is passed over.
SkipNotFile ==
    /\ pc = "scan"
    /\ entries # <<>>
    /\ Matches(Head(entries))
    /\ ~AlreadyWritten(Head(entries), ledger)
    /\ ~IsFile(img_dir, Head(entries))
    /\ skipped' = skipped
    /\ Continue

\* Image.open raises outside the try block: nothing catches it.
OpenFails ==
    /\ pc = "scan"
    /\ entries # <<>>
    /\ Matches(Head(entries))
    /\ ~AlreadyWritten(Head(entries), ledger)
    /\ IsFile(img_dir, Head(entries))
    /\ <<img_dir, Head(entries)>> \in fs.corrupt
    /\ img_filename' = Head(entries)
    /\ entries' = Tail(entries)
    /\ pc' = "open_raised"
    /\ UNCHANGED <<fs, listRev, store, buf, ledger, walk, queue, img_dir,
                   retry_count, response, run, records, prev>>
    /\ UNCHANGED runVars

\* The image is opened and its attempts begin with retry_count = 0.
OpenImage ==
    /\ pc = "scan"
    /\ entries # <<>>
    /\ Matches(Head(entries))
    /\ ~AlreadyWritten(Head(entries), ledger)
    /\ IsFile(img_dir, Head(entries))
    /\ <<img_dir, Head(entries)>> \notin fs.corrupt
    /\ img_filename' = Head(entries)
    /\ entries' = Tail(entries)
    /\ retry_count' = 0
    /\ itemCalls' = 0
    /\ itemSleeps' = <<>>
    /\ itemBase' = [len |-> Len(store), ledger |-> ledger]
    /\ pc' = "call"
    /\ UNCHANGED <<fs, listRev, store, buf, ledger, walk, queue, img_dir,
                   response, run, runBase, okCalls, loaded, called, skipped, exhausted, records,
                   prev>>

\* The directory has no more names: the function returns to main's loop.
LeaveDir ==
    /\ pc = "scan"
    /\ entries = <<>>
    /\ pc' = "walk"
    /\ UNCHANGED <<fs, listRev, store, buf, run, records, prev>>
    /\ UNCHANGED procVars
    /\ UNCHANGED runVars

\* Mutant of MayRetry: one attempt more is allowed.
MayRetryOneMore(count) == count <= max_retries

\* "while retry_count < max_retries" and "if retry_count < max_retries".
MayRetry(count) == count < max_retries

\* Mutant of WaitTime: the delay does not grow.
WaitTimeFixed(count) == delay_seconds

\* wait_time = delay_seconds * retry_count
WaitTime(count) == delay_seconds * count

\* generate_content (or anything else in the try block) raises an Exception:
\* retry_count grows; the process sleeps, or gives the image up.
CallFails ==
    /\ pc = "call"
    /\ retry_count' = retry_count + 1
    /\ itemCalls' = itemCalls + 1
    /\ called' = called \cup {Item}
    /\ IF MayRetry(retry_count + 1)
       THEN /\ itemSleeps' = Append(itemSleeps, WaitTime(retry_count + 1))
            /\ exhausted' = exhausted
            /\ pc' = "sleep"
       ELSE /\ itemSleeps' = itemSleeps
            /\ exhausted' = exhausted \cup {Item}
            /\ pc' = "scan"
    /\ UNCHANGED <<fs, listRev, store, buf, ledger, walk, queue, img_dir,
                   entries, img_filename, response, run, runBase, okCalls, loaded, skipped,
                   itemBase, records, prev>>

\* time.sleep(wait_time) returns and the while loop tries again.
Wake ==
    /\ pc = "sleep"
    /\ pc' = "call"
    /\ UNCHANGED <<fs, listRev, store, buf, run, records, prev>>
    /\ UNCHANGED procVars
    /\ UNCHANGED runVars

\* Mutant of CallSucceeds: the name is put in the ledger when the line is
\* written to the buffer, before the flush.
CallSucceedsMarksFirst ==
    /\ pc = "call"
    /\ \E text \in Texts :
          /\ response' = text
          /\ buf' = buf \o FormatLine(img_filename, text)
    /\ ledger' = ledger \cup {img_filename}
    /\ okCalls' = okCalls + 1
    /\ itemCalls' = itemCalls + 1
    /\ called' = called \cup {Item}
    /\ pc' = "written"
    /\ UNCHANGED <<fs, listRev, store, walk, queue, img_dir, entries,
                   img_filename, retry_count, run, runBase, loaded, skipped, exhausted,
                   itemSleeps, itemBase, records, prev>>

\* generate_content returns; the line is formed and written to responses_fp,
\* whose buffer holds it.
CallSucceeds ==
    /\ pc = "call"
    /\ \E text \in Texts :
          /\ response' = text
          /\ buf' = buf \o FormatLine(img_filename, text)
    /\ okCalls' = okCalls + 1
    /\ itemCalls' = itemCalls + 1
    /\ called' = called \cup {Item}
    /\ pc' = "written"
    /\ UNCHANGED <<fs, listRev, store, ledger, walk, queue, img_dir, entries,
                   img_filename, retry_count, run, runBase, loaded, skipped, exhausted,
                   itemSleeps, itemBase, records, prev>>

\* responses_fp.flush(): the buffered line reaches the file.
Flush ==
    /\ pc = "written"
    /\ store' = store \o buf
    /\ buf' = <<>>
    /\ records' = Append(records, [dir |-> img_dir, name |-> img_filename,
                                   text |-> response])
    /\ pc' = "flushed"
    /\ UNCHANGED <<fs, listRev, run, prev>>
    /\ UNCHANGED procVars
    /\ UNCHANGED runVars

\* already_written_set.add(img_filename), then "break" out of the while loop.
Mark ==
    /\ pc = "flushed"
    /\ ledger' = ledger \cup {img_filename}
    /\ itemCalls' = 0
    /\ itemSleeps' = <<>>
    /\ pc' = "scan"
    /\ UNCHANGED <<fs, listRev, store, buf, walk, queue, img_dir, entries,
                   img_filename, retry_count, response, run, runBase, okCalls, loaded, called,
                   skipped, exhausted, itemBase, records, prev>>

\* ------------------------------------------------------ the process's end

\* The state of a machine on which no process runs.
Stopped ==
    /\ pc' = "idle"
    /\ buf' = <<>>
    /\ ledger' = {}
    /\ walk' = <<>>
    /\ queue' = <<>>
    /\ img_dir' = Root
    /\ entries' = <<>>
    /\ img_filename' = NoName
    /\ retry_count' = 0
    /\ response' = <<>>
    /\ UNCHANGED <<fs, listRev, run>>
    /\ UNCHANGED runVars

\* main() has returned, or an uncaught exception has ended it: the
\* interpreter exits and closes responses_fp, whose buffer is empty.
Exit ==
    /\ pc \in EndedPcs
    /\ prev' = [how |-> pc, at |-> pc, item |-> NoItem, kept |-> FALSE]
    /\ UNCHANGED <<store, records>>
    /\ Stopped

\* The process is terminated from outside.  What the buffer of responses_fp
\* holds (a line written and not flushed) is lost when the process is killed
\* outright, and reaches the file when the interpreter still shuts down
\* (KeyboardInterrupt is no Exception: the except clause lets it through).
Kill ==
    /\ pc \in RunningPcs
    /\ \E kept \in BOOLEAN :
          /\ kept => pc = "written"
          /\ store' = IF kept THEN store \o buf ELSE store
          /\ records' = IF kept
                        THEN Append(records, [dir |-> img_dir,
                                              name |-> img_filename,
                                              text |-> response])
                        ELSE records
          /\ prev' = [how |-> "killed", at |-> pc,
                      item |-> IF pc \in ItemPcs THEN Item ELSE NoItem,
                      kept |-> kept]
    /\ Stopped

Next ==
    \/ StartRun
    \/ ConfigFails
    \/ WalkNext
    \/ WalkEnd
    \/ EnterDir
    \/ ListDirFails
    \/ SkipUnmatched
    \/ SkipWritten
    \/ SkipNotFile
    \/ OpenFails
    \/ OpenImage
    \/ LeaveDir
    \/ CallFails
    \/ Wake
    \/ CallSucceeds
    \/ Flush
    \/ Mark
    \/ Exit
    \/ Kill

Spec == Init /\ [][Next]_vars

\* ------------------------------------------------------- file content

\* Whether the content holds line as a whole line: at the start of the file
\* or right after a line break.
Contains(content, line) ==
    \E k \in 0..(Len(content) - Len(line)) :
        /\ SubSeq(content, k + 1, k + Len(line)) = line
        /\ k = 0 \/ content[k] = "\n"

\* Whether the content holds the line the writer forms for the filename.
HasLine(content, name) ==
    \E text \in Texts : Contains(content, FormatLine(name, text))

RECURSIVE Rendered(_)
\* The file content that a sequence of written lines amounts to.
Rendered(recs) ==
    IF recs = <<>> THEN <<>>
    ELSE FormatLine(Head(recs).name, Head(recs).text) \o Rendered(Tail(recs))

\* The names of the regular files of the tree.
FileNames == UNION { fs.files[d] : d \in fs.dirs }

\* The names of the images sent in this run.
CalledNames == { it[2] : it \in called }

\* ----------------------------------------------------------------- claims

\* C1: a filename that is a key of responses.txt when a run starts is not
\* sent to the remote model in that run, and no line is written for it.
C1_LoadedKeysAreSkipped ==
    /\ \A it \in called : it[2] \notin loaded
    /\ pc \in ItemPcs => img_filename \notin loaded

\* C1 witness: a second run has passed over a name that it loaded as a key.
C1_Witness ==
    /\ run >= 2
    /\ pc = "done"
    /\ skipped \cap loaded # {}

\* C2: each filename is the key of at most one line of responses.txt,
\* whatever runs produced the file.
C2_EachFilenameKeysOneLine ==
    LET ks == KeySeq(store)
    IN \A i, j \in 1..Len(ks) :
           (i # j /\ ks[i] \in FileNames) => ks[i] # ks[j]

\* C3: an image whose line was flushed when the process was terminated,
\* before its name was added to the set, is not sent again by the next run.
C3_FlushedItemIsCompleteNextRun ==
    (prev.how = "killed" /\ prev.at = "flushed" /\ pc # "idle")
        => prev.item[2] \notin CalledNames

\* C4: whenever the process is terminated, responses.txt holds whole lines
\* of answered images only, and the image that was in flight and lost is
\* sent again by the next run.
C4_KillLeavesStoreConsumable ==
    /\ store = Rendered(records)
    /\ (/\ pc = "done"
        /\ prev.how = "killed"
        /\ prev.item # NoItem
        /\ prev.at \in {"call", "sleep", "written"}
        /\ ~prev.kept)
           => prev.item[2] \in CalledNames

\* C5: a name added to the set during a run has its line in responses.txt
\* already: the set is never ahead of the file.
C5_MarkedOnlyAfterDurable ==
    \A name \in ledger \ loaded : HasLine(store, name)

\* C5 witness: a name was added to the set in this run.
C5_Witness ==
    /\ pc = "scan"
    /\ ledger \ loaded # {}

\* C6: once the set is loaded, a filename is in it exactly when its line is
\* in responses.txt (read outside the step between the flush of a line and
\* the addition of its name, where the file is one line ahead).
C6_LedgerIffDurableLine ==
    (pc \in RunningPcs /\ pc # "flushed")
        => \A name \in FileNames : name \in ledger <=> HasLine(store, name)

\* The delays 1, 2, ..., k of k successive back-offs.
Backoffs(k) == [i \in 1..k |-> delay_seconds * i]

\* C7: an image answered after K failures, K < max_retries, was sent K + 1
\* times, with sleeps of 1, 2, ..., K seconds after the failures, and its
\* line is written and flushed.
C7_SuccessAfterKFailures ==
    /\ pc \in {"written", "flushed"} =>
          /\ retry_count < max_retries
          /\ itemCalls = retry_count + 1
          /\ itemSleeps = Backoffs(retry_count)
    /\ pc = "written" => buf = FormatLine(img_filename, response)
    /\ pc = "flushed" =>
          /\ SubSeq(store, itemBase.len + 1, Len(store))
                = FormatLine(img_filename, response)
          /\ buf = <<>>

\* C7 witness: an image is recorded after three failed attempts.
C7_Witness ==
    /\ pc = "flushed"
    /\ retry_count = max_retries - 1
    /\ itemSleeps = <<1, 2, 3>>

\* C8: an image whose every attempt fails is given up after exactly
\* max_retries calls, with no sleep after the last failure, no line written
\* and no name added to the set.
C8_ExhaustedAfterMaxRetries ==
    [][(pc = "call" /\ pc' = "scan") =>
          /\ itemCalls' = max_retries
          /\ itemSleeps' = Backoffs(max_retries - 1)
          /\ Item \in exhausted'
          /\ store' = store
          /\ Len(store') = itemBase.len
          /\ buf' = <<>>
          /\ ledger' = itemBase.ledger
          /\ img_filename \notin ledger']_vars

\* C8 witness: an image has just been given up.
C8_Witness ==
    /\ pc = "scan"
    /\ Item \in exhausted
    /\ itemCalls = max_retries

\* C9: an image given up in a run is not sent again in that run.
C9_ExhaustedNotResubmitted ==
    pc = "call" => Item \notin exhausted

\* The images a completed run should have looked at: the matching regular
\* files of every directory the walk passes to the scan.
Eligible ==
    { it \in { <<d, n>> : d \in fs.dirs, n \in FileNames } :
        /\ it[2] \in fs.files[it[1]]
        /\ it[2] \in fs.filter
        /\ \E p \in fs.dirs :
               \E i \in 1..Len(ScanPlan(fs, p)) : ScanPlan(fs, p)[i] = it[1] }

\* C10: the failure of one image never ends the run, and a run that is
\* done has passed over or sent every eligible image.
C10_ItemFailureNeverAbortsBatch ==
    /\ pc # "open_raised"
    /\ pc = "done" =>
          \A it \in Eligible : it \in called \/ it[2] \in skipped

\* Every eligible image has its name in the set this run loaded.
AllInLedger == \A it \in Eligible : it[2] \in loaded

\* C11: a run started over an unchanged tree with every image already in
\* the loaded set sends nothing and leaves responses.txt as it found it.
C11_SecondRunIsIdle ==
    [][(pc \in RunningPcs \cup {"done"} /\ AllInLedger) =>
          /\ called' = {}
          /\ okCalls' = 0
          /\ store' = store
          /\ Len(store') = runBase.len
          /\ buf' = <<>>]_vars

\* C11 witness: the run after a completed run is done, having passed over
\* every image there is.
C11_Witness ==
    /\ run >= 2
    /\ prev.how = "done"
    /\ pc = "done"
    /\ Eligible # {}
    /\ AllInLedger
    /\ \A it \in Eligible : it[2] \in skipped

\* The filenames of the lines written to responses.txt.
RecordedNames == { records[i].name : i \in 1..Len(records) }

\* C12: loading a file that the writer produced gives exactly the filenames
\* that were written.
C12_LoadReturnsRecordedNames ==
    store = Rendered(records) => LoadLedger(store) = RecordedNames

\* The directories the enumeration is meant to cover, in order: the image
\* directory itself when it has no subdirectories, else its subdirectories.
EnumDirs == ScanPlan(fs, Root)

RECURSIVE EnumNames(_, _)
\* The names the enumeration yields over the directories ds, in order, a
\* name of seen (recorded from an earlier directory) being passed over.
EnumNames(ds, seen) ==
    IF ds = <<>> THEN <<>>
    ELSE LET d == Head(ds)
             ns == IF d \in fs.dirs
                   THEN { n \in fs.files[d] : n \in fs.filter /\ n \notin seen }
                   ELSE {}
         IN Sorted(ns) \o EnumNames(Tail(ds), seen \cup ns)

\* Image x comes no later than image y in the enumeration: by name within a
\* directory, by directory name between two subdirectories.
InOrder(x, y) ==
    IF x[1] = y[1] THEN x[2] = y[2] \/ StrLess(x[2], y[2])
    ELSE (x[1] # Root /\ y[1] # Root) => StrLess(x[1][1], y[1][1])

\* C13: images are first sent in the order of the enumeration (subdirectory
\* by subdirectory, names sorted), and a run over an empty responses.txt
\* in which no image is given up leaves the lines of exactly the enumerated
\* images, in that order.
C13_SubmissionFollowsEnumeration ==
    /\ (pc = "call" /\ itemCalls = 0) => \A it \in called : InOrder(it, Item)
    /\ (pc = "done" /\ runBase.recs = 0 /\ exhausted = {}) =>
          /\ store = Rendered(records)
          /\ [i \in 1..Len(records) |-> records[i].name]
                = EnumNames(EnumDirs, {})

\* The number of line breaks in the content.
LineBreaks(content) ==
    Cardinality({ k \in 1..Len(content) : content[k] = "\n" })

\* What a step has appended to responses.txt.
Appended == SubSeq(store', Len(store) + 1, Len(store'))

\* C14: a step leaves responses.txt alone or appends one complete line at
\* its end, and it appends only when a received answer is being written.
C14_StoreGrowsByOneLine ==
    [][store' # store =>
          /\ pc = "written"
          /\ Len(store') > Len(store)
          /\ SubSeq(store', 1, Len(store)) = store
          /\ Appended[Len(Appended)] = "\n"
          /\ LineBreaks(Appended) = 1]_vars

\* C15: a run that ends because prompt.txt or responses.txt could not be
\* opened or read has sent no image and has appended nothing to
\* responses.txt.
C15_ConfigErrorBeforeAnyWork ==
    pc = "config_raised" =>
        /\ called = {}
        /\ okCalls = 0
        /\ Len(store) = runBase.len
        /\ Len(records) = runBase.recs
        /\ buf = <<>>

\* C15 witness: a run over a file that earlier runs have filled has ended on
\* such an error.
C15_Witness ==
    /\ pc = "config_raised"
    /\ store # <<>>
    /\ run >= 2

\* C16: when the image directory has a subdirectory, no file lying in the
\* image directory itself is sent to the remote model.
C16_RootFilesNeverSubmitted ==
    SubdirNames(fs, Root) # {} => \A it \in called : it[1] # Root

\* C17: a run that is not stopped from outside and whose files open ends by
\* returning from main() with the walk exhausted, and no image is sent more
\* than max_retries times.
C17_RunEndsDone ==
    /\ pc \in EndedPcs \ {"config_raised"} => pc = "done" /\ walk = <<>>
    /\ itemCalls <= max_retries

\* What this run has appended to responses.txt so far.
RunAppended == SubSeq(store, runBase.len + 1, Len(store))

\* The filenames of the answers this run has written to responses.txt.
RunRecordedNames ==
    { records[i].name : i \in (runBase.recs + 1)..Len(records) }

\* C18: while a run goes on and when it has ended, the lines it has appended
\* to responses.txt are as many as the answers it has received, less the
\* one being written; and no image is sent whose answer this run has
\* already written.
C18_OneLinePerSuccessfulCall ==
    /\ pc \in RunningPcs \cup EndedPcs =>
          LineBreaks(RunAppended)
             = okCalls - (IF pc = "written" THEN 1 ELSE 0)
    /\ pc = "call" => img_filename \notin RunRecordedNames

\* Whether responses.txt holds the answer written for a file of the same
\* name that lies in another subdirectory.
TwinRecorded(d, name) ==
    \E i \in 1..Len(records) :
        /\ records[i].name = name
        /\ records[i].dir # d
        /\ records[i].dir # Root

\* C19: an image of a subdirectory is not sent, in the run that wrote it or
\* in a later one, when responses.txt holds the answer for a file of its
\* name in another subdirectory.
C19_TwinNameNeverSubmitted ==
    (pc = "call" /\ img_dir # Root) => ~TwinRecorded(img_dir, img_filename)

====
